---- MODULE Spec2Model ----
(***************************************************************************)
(* Model of erkc63.client: the ErkcClient session state machine, the       *)
(* module-level admission semaphore, the `api` guard that wraps every      *)
(* client method, and the account binding operations.                      *)
(*                                                                         *)
(* All coroutines run on one asyncio event loop.  A coroutine runs without *)
(* interruption until it awaits a network request or an unavailable        *)
(* semaphore; `running` names the coroutine that currently has the loop.   *)
(***************************************************************************)
EXTENDS Integers, Sequences, FiniteSets, TLC

\* ------------------------------------------------------------------ bounds
NumTasks == 2         \* concurrent callers (tasks) per client
MaxTime == 2          \* the clock stops after this many seconds
MaxPermits == 2       \* releases are not modelled beyond this semaphore value
CookieLifetime == 1   \* seconds the server's session cookie lives

Clients == {"c1", "c2"}
Tasks == 1..NumTasks
Procs == Clients \X Tasks

None == "None"
TokenValue == "tok"

\* The optional tuple ErkcClient._accounts: None, or a tuple of account ids.
NoAccounts == [some |-> FALSE, ids |-> <<>>]
Some(ids) == [some |-> TRUE, ids |-> ids]

\* Account ids, and the account lists parse_accounts can find in a page.
Accounts == {1, 2}
AccountLists == {<<>>, <<1>>, <<2>>, <<1, 2>>, <<2, 1>>}

\* Values of last_bill_amount and of PublicAccountInfo.balance.
Amounts == {-1, 0, 5}
Balances == {0, 7}

\* Credentials given to the constructor and to explicit open() calls.
CtorLogins == {None, "user"}
CtorPasswords == {None, "pw"}
ArgLogins == {None, "alt"}
ArgPasswords == {None, "altpw"}

\* Redirect chains a login POST can end with: the history of redirect
\* responses (the first is the response to the POST itself) and the final URL.
LoginResponses ==
    { [history |-> <<>>, url |-> "/login"],
      [history |-> <<"/login">>, url |-> "/login"],
      [history |-> <<"/login">>, url |-> "/account"],
      [history |-> <<"/login", "/account">>, url |-> "/login"] }

VARIABLES
    sem,        \* _SEMAPHORE: number of available permits
    now,        \* current UTC time, whole seconds
    running,    \* the coroutine that has the event loop, or NoProc
    token,      \* ErkcClient._token
    accounts,   \* ErkcClient._accounts
    cliClosed,  \* ErkcClient._cli.closed
    jar,        \* ErkcClient._cli.cookie_jar: sequence of cookies
    login,      \* ErkcClient._login
    password,   \* ErkcClient._password
    pc,         \* position of each task
    op,         \* the client method each task was started with
    arg,        \* its arguments
    call,       \* arguments and return address of the open()/close() in progress
    req,        \* the request a task awaits
    res,        \* outcome of the task's operation
    resp,       \* history: the last answer the task's operation received
    lastCheck,  \* history: what the client's last _check_session found
    held,       \* history: permits each client acquired and has not released
    acquired,   \* history: the task's operation acquired a permit
    sawOpen,    \* history: a token was obtained since the task's operation began
    fn,         \* the data method under study, None in the session specifications
    params,     \* its arguments
    server,     \* what the server holds for its requests
    locals,     \* its local variables and its position
    sent,       \* history: the requests it has issued, in order
    ret         \* its outcome: the value returned or the exception raised

vars == <<sem, now, running, token, accounts, cliClosed, jar, login, password,
          pc, op, arg, call, req, res, resp, lastCheck, held, acquired, sawOpen,
          fn, params, server, locals, sent, ret>>

\* The state of a data method (a method body taken on its own), and the
\* state of the sessions.
dataVars == <<fn, params, server, locals, sent, ret>>
sessionVars == <<sem, now, running, token, accounts, cliClosed, jar, login,
                 password, pc, op, arg, call, req, res, resp, lastCheck, held,
                 acquired, sawOpen>>

clientVars == <<token, accounts, cliClosed, jar, login, password, lastCheck>>
ghostVars == <<resp, held, acquired, sawOpen>>

ClientOf(p) == p[1]

\* The value of `running` while the event loop is between coroutines.
NoProc == <<None, 0>>

\* ----------------------------------------------------------------- records
NoArg == [login |-> None, password |-> None, auth |-> TRUE, ct |-> TRUE,
          account |-> 0, info |-> FALSE, balance |-> 0, amount |-> 0]
NoCall == [login |-> None, password |-> None, auth |-> TRUE, ct |-> TRUE,
           ret |-> None, exc |-> None]
NoReq == [kind |-> None, login |-> None, password |-> None, account |-> 0, summ |-> 0]
NoRes == [kind |-> None, src |-> None]
NoResp == [kind |-> None, token |-> FALSE, history |-> <<>>, url |-> None,
           ids |-> NoAccounts]
\* Answers: a failed request, a page (with or without the token field), the
\* end of a login redirect chain with its account list, an account page.
FailedRequest == [NoResp EXCEPT !.kind = "error"]
Page(tok) == [NoResp EXCEPT !.kind = "page", !.token = tok]
LoginAnswer(r, ids) ==
    [NoResp EXCEPT !.kind = "login", !.history = r.history, !.url = r.url,
                   !.ids = Some(ids)]
AccountsPage(ids) == [NoResp EXCEPT !.kind = "accounts", !.ids = Some(ids)]

OpenCall(l, pw, a, r) ==
    [login |-> l, password |-> pw, auth |-> a, ct |-> TRUE, ret |-> r, exc |-> None]
CloseCall(ct, r) ==
    [login |-> None, password |-> None, auth |-> TRUE, ct |-> ct, ret |-> r, exc |-> None]

\* ------------------------------------------------------- ErkcClient properties
closed(c) == cliClosed[c]

opened(c) == ~(closed(c) \/ token[c] = None)

authorized(c) == ~(closed(c) \/ ~accounts[c].some)

\* --------------------------------------------------------- _check_session
ExpiredStrict(t, expires) == t > expires

\* line 181: now (truncated to the second) >= expires
Expired(t, expires) == t >= expires

RECURSIVE SessionAlive(_, _)
\* The loop of _check_session over the cookie jar: TRUE when it returns at
\* line 184 (session cookie found and not expired), FALSE when it falls
\* through or breaks to the _reset() of line 186.
SessionAlive(cookies, t) ==
    IF cookies = <<>> THEN FALSE
    ELSE IF Head(cookies).key = "laravel_session"
         THEN ~Expired(t, Head(cookies).expires)
         ELSE SessionAlive(Tail(cookies), t)

_reset(c) ==
    /\ token' = [token EXCEPT ![c] = None]
    /\ accounts' = [accounts EXCEPT ![c] = NoAccounts]

_check_session(c) ==
    IF SessionAlive(jar[c], now)
    THEN /\ UNCHANGED <<token, accounts>>
         /\ lastCheck' = [lastCheck EXCEPT ![c] = "alive"]
    ELSE /\ _reset(c)
         /\ lastCheck' = [lastCheck EXCEPT ![c] =
                IF token[c] # None THEN "cleared" ELSE "reset"]

\* The cookies a server response stores in the jar.
SetCookies(t) ==
    << [key |-> "XSRF-TOKEN", expires |-> t + CookieLifetime],
       [key |-> "laravel_session", expires |-> t + CookieLifetime] >>

\* -------------------------------------------------------------------- Init
SessionInit ==
    /\ sem = 1
    /\ now = 0
    /\ running = NoProc
    /\ token = [c \in Clients |-> None]
    /\ accounts = [c \in Clients |-> NoAccounts]
    /\ cliClosed = [c \in Clients |-> FALSE]
    /\ jar = [c \in Clients |-> <<>>]
    /\ login \in [Clients -> CtorLogins]
    /\ password \in [Clients -> CtorPasswords]
    /\ pc = [p \in Procs |-> "idle"]
    /\ op = [p \in Procs |-> None]
    /\ arg = [p \in Procs |-> NoArg]
    /\ call = [p \in Procs |-> NoCall]
    /\ req = [p \in Procs |-> NoReq]
    /\ res = [p \in Procs |-> NoRes]
    /\ resp = [p \in Procs |-> NoResp]
    /\ lastCheck = [c \in Clients |-> None]
    /\ held = [c \in Clients |-> 0]
    /\ acquired = [p \in Procs |-> FALSE]
    /\ sawOpen = [p \in Procs |-> FALSE]

\* No data method is under study.
Init ==
    /\ SessionInit
    /\ fn = None
    /\ params = None
    /\ server = None
    /\ locals = None
    /\ sent = <<>>
    /\ ret = NoRes

\* ------------------------------------------------------------ operations
\* The decorated client methods a caller can start.  account_info stands for
\* the methods decorated with plain @api, pub_account_info for the public ones.
PublicOps == {"pub_account_info"}
GuardedOps == {"account_info", "account_add", "account_rm"} \cup PublicOps
OpNames == GuardedOps \cup {"open", "close", "__aenter__"}

\* line 81 and line 98: auth_required is True unless the method is public.
AuthRequired(o) == o \notin PublicOps

ArgsOf(o) ==
    CASE o = "open" -> {[NoArg EXCEPT !.login = l, !.password = pw, !.auth = a] :
                            l \in ArgLogins, pw \in ArgPasswords, a \in BOOLEAN}
      [] o = "close" -> {[NoArg EXCEPT !.ct = ct] : ct \in BOOLEAN}
      [] o = "account_add" ->
            {[NoArg EXCEPT !.account = n, !.amount = m] :
                 n \in Accounts, m \in Amounts}
            \cup {[NoArg EXCEPT !.account = n, !.amount = m, !.info = TRUE, !.balance = b] :
                      n \in Accounts, m \in Amounts, b \in Balances}
      [] o = "account_rm" -> {[NoArg EXCEPT !.account = n] : n \in Accounts}
      [] OTHER -> {NoArg}

EntryPc(o) ==
    CASE o \in GuardedOps -> "w92"
      [] o = "close" -> "c92"
      [] OTHER -> "o92"

EntryCall(o, a) ==
    CASE o = "open" -> OpenCall(a.login, a.password, a.auth, "done")
      [] o = "close" -> CloseCall(a.ct, "done")
      [] o = "__aenter__" -> OpenCall(None, None, TRUE, "__aenter__")
      [] OTHER -> NoCall

Ok == [kind |-> "ok", src |-> None]
Err(e, s) == [kind |-> e, src |-> s]

\* Python's `a or b` on an optional string.
OrElse(a, b) == IF a # None THEN a ELSE b

\* The history counter `held` stays within 0..MaxPermits.
Dec(n) == IF n > 0 THEN n - 1 ELSE 0
Inc(n) == IF n < MaxPermits THEN n + 1 ELSE n

\* A caller starts a client method on an idle task.
Invoke(p) ==
    /\ running = NoProc
    /\ pc[p] = "idle"
    /\ \E o \in OpNames : \E a \in ArgsOf(o) :
        /\ op' = [op EXCEPT ![p] = o]
        /\ arg' = [arg EXCEPT ![p] = a]
        /\ pc' = [pc EXCEPT ![p] = EntryPc(o)]
        /\ call' = [call EXCEPT ![p] = EntryCall(o, a)]
    /\ running' = p
    /\ UNCHANGED <<sem, now, dataVars, clientVars, req, res, ghostVars>>

\* ------------------------------------------------- open(): leaving the call
\* open() returns to the place that called it.
OpenReturns(p) ==
    LET r == call[p].ret IN
    /\ pc' = [pc EXCEPT ![p] = IF r \in {"w104", "body"} THEN r ELSE "done"]
    /\ res' = [res EXCEPT ![p] = IF r \in {"w104", "body"} THEN @ ELSE Ok]
    /\ call' = [call EXCEPT ![p] = NoCall]

\* open() raises: __aenter__ catches it and calls close() (lines 160-162);
\* the guard and a direct caller let it propagate.
OpenRaises(p, e) ==
    /\ res' = [res EXCEPT ![p] = Err(e, "open")]
    /\ IF call[p].ret = "__aenter__"
       THEN /\ pc' = [pc EXCEPT ![p] = "c92"]
            /\ call' = [call EXCEPT ![p] = CloseCall(TRUE, "reraise")]
       ELSE /\ pc' = [pc EXCEPT ![p] = "done"]
            /\ call' = [call EXCEPT ![p] = NoCall]

\* close() returns to the place that called it.
CloseReturns(p) ==
    LET r == call[p].ret IN
    /\ pc' = [pc EXCEPT ![p] = IF r = "w101" THEN r ELSE "done"]
    /\ res' = [res EXCEPT ![p] = IF r = "done" THEN Ok ELSE @]
    /\ call' = [call EXCEPT ![p] = NoCall]

CloseRaises(p, e) ==
    /\ pc' = [pc EXCEPT ![p] = "done"]
    /\ res' = [res EXCEPT ![p] = Err(e, "close")]
    /\ call' = [call EXCEPT ![p] = NoCall]

\* ---------------------------------------------------------- api guard
\* lines 92-99: expiry check; a public method closes the session first.
W92(p) ==
    LET c == ClientOf(p) IN
    /\ running = p
    /\ pc[p] = "w92"
    /\ _check_session(c)
    /\ IF op[p] \in PublicOps
       THEN /\ pc' = [pc EXCEPT ![p] = "c92"]
            /\ call' = [call EXCEPT ![p] = CloseCall(FALSE, "w101")]
       ELSE /\ pc' = [pc EXCEPT ![p] = "w101"]
            /\ UNCHANGED call
    /\ UNCHANGED <<sem, now, dataVars, running, cliClosed, jar, login, password,
                   op, arg, req, res, ghostVars>>

\* lines 101-102
W101(p) ==
    LET c == ClientOf(p) IN
    /\ running = p
    /\ pc[p] = "w101"
    /\ IF ~opened(c)
       THEN /\ pc' = [pc EXCEPT ![p] = "o92"]
            /\ call' = [call EXCEPT ![p] =
                            OpenCall(None, None, AuthRequired(op[p]), "w104")]
       ELSE /\ pc' = [pc EXCEPT ![p] = "w104"]
            /\ UNCHANGED call
    /\ UNCHANGED <<sem, now, dataVars, running, clientVars, op, arg, req, res, ghostVars>>

MustAuthorizeNever(c, o) == FALSE

\* line 104: the guard's second condition
MustAuthorize(c, o) == AuthRequired(o) /\ ~authorized(c)

\* lines 104-107
W104(p) ==
    LET c == ClientOf(p) IN
    /\ running = p
    /\ pc[p] = "w104"
    /\ IF MustAuthorize(c, op[p])
       THEN /\ pc' = [pc EXCEPT ![p] = "o92"]
            /\ call' = [call EXCEPT ![p] = OpenCall(None, None, TRUE, "body")]
       ELSE /\ pc' = [pc EXCEPT ![p] = "body"]
            /\ UNCHANGED call
    /\ UNCHANGED <<sem, now, dataVars, running, clientVars, op, arg, req, res, ghostVars>>

\* ------------------------------------------------------------------ open()
\* line 92 of the check-only wrapper around open()
O92(p) ==
    /\ running = p
    /\ pc[p] = "o92"
    /\ _check_session(ClientOf(p))
    /\ pc' = [pc EXCEPT ![p] = "o264"]
    /\ UNCHANGED <<sem, now, dataVars, running, cliClosed, jar, login, password,
                   op, arg, call, req, res, ghostVars>>

\* _SEMAPHORE.acquire() takes a permit.
Acquire(p) ==
    /\ sem' = sem - 1
    /\ held' = [held EXCEPT ![ClientOf(p)] = Inc(@)]
    /\ acquired' = [acquired EXCEPT ![p] = TRUE]

\* lines 264-265: a session that is not open needs a permit; the coroutine
\* is suspended when none is available.
O264(p) ==
    LET c == ClientOf(p) IN
    /\ running = p
    /\ pc[p] = "o264"
    /\ IF opened(c)
       THEN /\ pc' = [pc EXCEPT ![p] = "o276"]
            /\ UNCHANGED <<sem, running, held, acquired>>
       ELSE IF sem > 0
            THEN /\ Acquire(p)
                 /\ pc' = [pc EXCEPT ![p] = "o269"]
                 /\ UNCHANGED running
            ELSE /\ pc' = [pc EXCEPT ![p] = "o265"]
                 /\ running' = NoProc
                 /\ UNCHANGED <<sem, held, acquired>>
    /\ UNCHANGED <<now, dataVars, clientVars, op, arg, call, req, res, resp, sawOpen>>

\* line 265: a suspended acquire() is resumed once a permit is available.
O265(p) ==
    /\ running = NoProc
    /\ pc[p] = "o265"
    /\ sem > 0
    /\ Acquire(p)
    /\ pc' = [pc EXCEPT ![p] = "o269"]
    /\ running' = p
    /\ UNCHANGED <<now, dataVars, clientVars, op, arg, call, req, res, resp, sawOpen>>

\* line 269: GET /login is sent; a closed transport refuses the request.
O269(p) ==
    LET c == ClientOf(p) IN
    /\ running = p
    /\ pc[p] = "o269"
    /\ IF closed(c)
       THEN /\ OpenRaises(p, "RuntimeError")
            /\ UNCHANGED <<req, running>>
       ELSE /\ pc' = [pc EXCEPT ![p] = "o270"]
            /\ req' = [req EXCEPT ![p] = [NoReq EXCEPT !.kind = "GET /login"]]
            /\ running' = NoProc
            /\ UNCHANGED <<call, res>>
    /\ UNCHANGED <<sem, now, dataVars, clientVars, op, arg, ghostVars>>

\* Tasks of client c that have an operation in progress.
InFlight(c) == {q \in Procs : ClientOf(q) = c /\ pc[q] # "idle"}

\* lines 270-274: the login page arrives (or the request fails); parse_token
\* finds the token or raises ParsingError.
O270(p) ==
    LET c == ClientOf(p) IN
    /\ running = NoProc
    /\ pc[p] = "o270"
    /\ running' = p
    /\ req' = [req EXCEPT ![p] = NoReq]
    /\ \/ /\ resp' = [resp EXCEPT ![p] = FailedRequest]
          /\ OpenRaises(p, "ClientError")
          /\ UNCHANGED <<token, jar, sawOpen>>
       \/ /\ resp' = [resp EXCEPT ![p] = Page(FALSE)]
          /\ jar' = [jar EXCEPT ![c] = SetCookies(now)]
          /\ OpenRaises(p, "ParsingError")
          /\ UNCHANGED <<token, sawOpen>>
       \/ /\ resp' = [resp EXCEPT ![p] = Page(TRUE)]
          /\ jar' = [jar EXCEPT ![c] = SetCookies(now)]
          /\ token' = [token EXCEPT ![c] = TokenValue]
          /\ sawOpen' = [q \in Procs |-> sawOpen[q] \/ q \in InFlight(c)]
          /\ pc' = [pc EXCEPT ![p] = "o276"]
          /\ UNCHANGED <<call, res>>
    /\ UNCHANGED <<sem, now, dataVars, accounts, cliClosed, login, password, lastCheck,
                   op, arg, held, acquired>>

\* lines 276-286: return when no login is wanted, else resolve the
\* credentials and send POST /login.
O276(p) ==
    LET c == ClientOf(p)
        l == OrElse(call[p].login, login[c])
        pw == OrElse(call[p].password, password[c])
    IN
    /\ running = p
    /\ pc[p] = "o276"
    /\ IF ~call[p].auth \/ authorized(c)
       THEN /\ OpenReturns(p)
            /\ UNCHANGED <<req, running>>
       ELSE IF ~(l # None /\ pw # None)
            THEN /\ OpenRaises(p, "AuthorizationError")
                 /\ UNCHANGED <<req, running>>
            ELSE IF closed(c)
                 THEN /\ OpenRaises(p, "RuntimeError")
                      /\ UNCHANGED <<req, running>>
                 ELSE /\ pc' = [pc EXCEPT ![p] = "o286"]
                      /\ req' = [req EXCEPT ![p] =
                             [NoReq EXCEPT !.kind = "POST /login", !.login = l, !.password = pw]]
                      /\ running' = NoProc
                      /\ UNCHANGED <<call, res>>
    /\ UNCHANGED <<sem, now, dataVars, clientVars, op, arg, ghostVars>>

\* line 287: the final URL equals the first URL of the redirect history
LoginRejected(r) == r.url = r.history[1]

\* lines 286-297: the answer to POST /login
O286(p) ==
    LET c == ClientOf(p) IN
    /\ running = NoProc
    /\ pc[p] = "o286"
    /\ running' = p
    /\ req' = [req EXCEPT ![p] = NoReq]
    /\ \/ /\ resp' = [resp EXCEPT ![p] = FailedRequest]
          /\ OpenRaises(p, "ClientError")
          /\ UNCHANGED <<accounts, jar, login, password>>
       \/ \E r \in LoginResponses, ids \in AccountLists :
          /\ resp' = [resp EXCEPT ![p] = LoginAnswer(r, ids)]
          /\ jar' = [jar EXCEPT ![c] = SetCookies(now)]
          /\ IF r.history = <<>>
             THEN /\ OpenRaises(p, "IndexError")
                  /\ UNCHANGED <<accounts, login, password>>
             ELSE IF LoginRejected(r)
                  THEN /\ OpenRaises(p, "AuthorizationError")
                       /\ UNCHANGED <<accounts, login, password>>
                  ELSE /\ accounts' = [accounts EXCEPT ![c] = Some(ids)]
                       /\ login' = [login EXCEPT ![c] = req[p].login]
                       /\ password' = [password EXCEPT ![c] = req[p].password]
                       /\ OpenReturns(p)
    /\ UNCHANGED <<sem, now, dataVars, token, cliClosed, lastCheck, op, arg,
                   held, acquired, sawOpen>>

\* ----------------------------------------------------------------- close()
\* line 92 of the check-only wrapper around close()
C92(p) ==
    /\ running = p
    /\ pc[p] = "c92"
    /\ _check_session(ClientOf(p))
    /\ pc' = [pc EXCEPT ![p] = "c304"]
    /\ UNCHANGED <<sem, now, dataVars, running, cliClosed, jar, login, password,
                   op, arg, call, req, res, ghostVars>>

\* lines 303-307: only an authorized session logs out
C304(p) ==
    LET c == ClientOf(p) IN
    /\ running = p
    /\ pc[p] = "c304"
    /\ IF authorized(c)
       THEN /\ pc' = [pc EXCEPT ![p] = "c307"]
            /\ req' = [req EXCEPT ![p] = [NoReq EXCEPT !.kind = "GET /logout"]]
            /\ running' = NoProc
       ELSE /\ pc' = [pc EXCEPT ![p] = "c312"]
            /\ UNCHANGED <<req, running>>
    /\ UNCHANGED <<sem, now, dataVars, clientVars, op, arg, call, res, ghostVars>>

\* lines 307-310: the logout answer arrives and the session is reset, or the
\* request fails and the exception is pending while the finally block runs.
C307(p) ==
    LET c == ClientOf(p) IN
    /\ running = NoProc
    /\ pc[p] = "c307"
    /\ running' = p
    /\ req' = [req EXCEPT ![p] = NoReq]
    /\ pc' = [pc EXCEPT ![p] = "c312"]
    /\ \/ /\ resp' = [resp EXCEPT ![p] = FailedRequest]
          /\ call' = [call EXCEPT ![p].exc = "ClientError"]
          /\ UNCHANGED <<token, accounts, jar>>
       \/ /\ resp' = [resp EXCEPT ![p] = Page(FALSE)]
          /\ jar' = [jar EXCEPT ![c] = SetCookies(now)]
          /\ _reset(c)
          /\ UNCHANGED call
    /\ UNCHANGED <<sem, now, dataVars, cliClosed, login, password, lastCheck, op, arg, res,
                   held, acquired, sawOpen>>

\* lines 312-316: the finally block closes the transport when asked and
\* releases a permit; then close() returns or re-raises.
C312(p) ==
    LET c == ClientOf(p) IN
    /\ running = p
    /\ pc[p] = "c312"
    /\ sem < MaxPermits
    /\ cliClosed' = [cliClosed EXCEPT ![c] = @ \/ call[p].ct]
    /\ sem' = sem + 1
    /\ held' = [held EXCEPT ![c] = Dec(@)]
    /\ IF call[p].exc # None
       THEN CloseRaises(p, call[p].exc)
       ELSE CloseReturns(p)
    /\ UNCHANGED <<now, dataVars, running, token, accounts, jar, login, password, lastCheck,
                   op, arg, req, resp, acquired, sawOpen>>

\* ---------------------------------------------------------- method bodies
Finish(p, r) ==
    /\ pc' = [pc EXCEPT ![p] = "done"]
    /\ res' = [res EXCEPT ![p] = r]

\* account_info (lines 611-613) and pub_account_info (line 782): the body
\* resolves the account where needed and sends its request.
Body(p) ==
    LET c == ClientOf(p) IN
    /\ running = p
    /\ pc[p] = "body"
    /\ op[p] \in {"account_info", "pub_account_info"}
    /\ IF op[p] = "account_info" /\ ~accounts[c].some
       THEN Finish(p, Err("AuthorizationRequired", "body")) /\ UNCHANGED <<req, running>>
       ELSE IF op[p] = "account_info" /\ accounts[c].ids = <<>>
            THEN Finish(p, Err("AccountNotFound", "body")) /\ UNCHANGED <<req, running>>
            ELSE IF closed(c)
                 THEN Finish(p, Err("RuntimeError", "body")) /\ UNCHANGED <<req, running>>
                 ELSE /\ pc' = [pc EXCEPT ![p] = "b_wait"]
                      /\ req' = [req EXCEPT ![p] = [NoReq EXCEPT !.kind = "GET"]]
                      /\ running' = NoProc
                      /\ UNCHANGED res
    /\ UNCHANGED <<sem, now, dataVars, clientVars, op, arg, call, ghostVars>>

\* lines 613-616 and 782-793: the answer arrives and the method returns.
BodyWait(p) ==
    LET c == ClientOf(p) IN
    /\ running = NoProc
    /\ pc[p] = "b_wait"
    /\ req[p].kind = "GET"
    /\ running' = p
    /\ req' = [req EXCEPT ![p] = NoReq]
    /\ \/ /\ resp' = [resp EXCEPT ![p] = FailedRequest]
          /\ Finish(p, Err("ClientError", "body"))
          /\ UNCHANGED jar
       \/ /\ resp' = [resp EXCEPT ![p] = Page(FALSE)]
          /\ Finish(p, Ok)
          /\ jar' = [jar EXCEPT ![c] = SetCookies(now)]
    /\ UNCHANGED <<sem, now, dataVars, token, accounts, cliClosed, login, password, lastCheck,
                   op, arg, call, held, acquired, sawOpen>>

\* Membership in a tuple of account ids.
Elems(ids) == {ids[i] : i \in 1..Len(ids)}

\* lines 633-635: a PublicAccountInfo gives the amount when none was passed.
BillAmount(a) ==
    IF a.info /\ a.amount = 0 THEN a.balance ELSE a.amount

AlreadyBoundNever(c, n) == FALSE

\* line 637: account in self.accounts
AlreadyBound(c, n) == n \in Elems(accounts[c].ids)

\* lines 633-648: account_add up to its POST
AddBody(p) ==
    LET c == ClientOf(p)
        n == arg[p].account
        m == BillAmount(arg[p])
    IN
    /\ running = p
    /\ pc[p] = "body"
    /\ op[p] = "account_add"
    /\ IF ~accounts[c].some
       THEN Finish(p, Err("AuthorizationRequired", "body")) /\ UNCHANGED <<req, running>>
       ELSE IF AlreadyBound(c, n)
            THEN Finish(p, Ok) /\ UNCHANGED <<req, running>>
            ELSE IF m <= 0
                 THEN Finish(p, Err("ValueError", "body")) /\ UNCHANGED <<req, running>>
                 ELSE IF closed(c)
                      THEN Finish(p, Err("RuntimeError", "body")) /\ UNCHANGED <<req, running>>
                      ELSE /\ pc' = [pc EXCEPT ![p] = "add_wait"]
                           /\ req' = [req EXCEPT ![p] =
                                  [NoReq EXCEPT !.kind = "POST /account/add",
                                                !.account = n, !.summ = m]]
                           /\ running' = NoProc
                           /\ UNCHANGED res
    /\ UNCHANGED <<sem, now, dataVars, clientVars, op, arg, call, ghostVars>>

BoundAfterAlways(c, n, ids) == TRUE

\* line 653 (negated): the account is in the re-parsed list
BoundAfter(c, n, ids) == n \in Elems(ids)

\* lines 649-654: the answer is re-parsed and the binding verified.
AddWait(p) ==
    LET c == ClientOf(p) IN
    /\ running = NoProc
    /\ pc[p] = "add_wait"
    /\ running' = p
    /\ req' = [req EXCEPT ![p] = NoReq]
    /\ \/ /\ resp' = [resp EXCEPT ![p] = FailedRequest]
          /\ Finish(p, Err("ClientError", "body"))
          /\ UNCHANGED <<jar, accounts>>
       \/ \E ids \in AccountLists :
          /\ jar' = [jar EXCEPT ![c] = SetCookies(now)]
          /\ accounts' = [accounts EXCEPT ![c] = Some(ids)]
          /\ resp' = [resp EXCEPT ![p] = AccountsPage(ids)]
          /\ IF BoundAfter(c, req[p].account, ids)
             THEN Finish(p, Ok)
             ELSE Finish(p, Err("AccountBindingError", "body"))
    /\ UNCHANGED <<sem, now, dataVars, token, cliClosed, login, password, lastCheck,
                   op, arg, call, held, acquired, sawOpen>>

\* lines 665-669: account_rm up to its POST
RmBody(p) ==
    LET c == ClientOf(p)
        n == arg[p].account
    IN
    /\ running = p
    /\ pc[p] = "body"
    /\ op[p] = "account_rm"
    /\ IF ~accounts[c].some
       THEN Finish(p, Err("AuthorizationRequired", "body")) /\ UNCHANGED <<req, running>>
       ELSE IF ~AlreadyBound(c, n)
            THEN Finish(p, Ok) /\ UNCHANGED <<req, running>>
            ELSE IF closed(c)
                 THEN Finish(p, Err("RuntimeError", "body")) /\ UNCHANGED <<req, running>>
                 ELSE /\ pc' = [pc EXCEPT ![p] = "rm_wait"]
                      /\ req' = [req EXCEPT ![p] =
                             [NoReq EXCEPT !.kind = "POST /account/remove",
                                           !.account = n]]
                      /\ running' = NoProc
                      /\ UNCHANGED res
    /\ UNCHANGED <<sem, now, dataVars, clientVars, op, arg, call, ghostVars>>

\* lines 670-675: the answer is re-parsed and the removal verified.
RmWait(p) ==
    LET c == ClientOf(p) IN
    /\ running = NoProc
    /\ pc[p] = "rm_wait"
    /\ running' = p
    /\ req' = [req EXCEPT ![p] = NoReq]
    /\ \/ /\ resp' = [resp EXCEPT ![p] = FailedRequest]
          /\ Finish(p, Err("ClientError", "body"))
          /\ UNCHANGED <<jar, accounts>>
       \/ \E ids \in AccountLists :
          /\ jar' = [jar EXCEPT ![c] = SetCookies(now)]
          /\ accounts' = [accounts EXCEPT ![c] = Some(ids)]
          /\ resp' = [resp EXCEPT ![p] = AccountsPage(ids)]
          /\ IF BoundAfter(c, req[p].account, ids)
             THEN Finish(p, Err("AccountBindingError", "body"))
             ELSE Finish(p, Ok)
    /\ UNCHANGED <<sem, now, dataVars, token, cliClosed, login, password, lastCheck,
                   op, arg, call, held, acquired, sawOpen>>

\* Control returns to the caller of the method.
Return(p) ==
    /\ running = p
    /\ pc[p] = "done"
    /\ pc' = [pc EXCEPT ![p] = "idle"]
    /\ running' = NoProc
    /\ op' = [op EXCEPT ![p] = None]
    /\ arg' = [arg EXCEPT ![p] = NoArg]
    /\ res' = [res EXCEPT ![p] = NoRes]
    /\ resp' = [resp EXCEPT ![p] = NoResp]
    /\ acquired' = [acquired EXCEPT ![p] = FALSE]
    /\ sawOpen' = [sawOpen EXCEPT ![p] = FALSE]
    /\ UNCHANGED <<sem, now, dataVars, clientVars, call, req, held>>

\* Time passes while no coroutine is running.
Tick ==
    /\ running = NoProc
    /\ now < MaxTime
    /\ now' = now + 1
    /\ UNCHANGED <<sem, running, clientVars, pc, op, arg, call, req, res, ghostVars,
                   dataVars>>

\* ------------------------------------------------------------ specification
Step(p) ==
    \/ W92(p) \/ W101(p) \/ W104(p)
    \/ O92(p) \/ O264(p) \/ O265(p) \/ O269(p) \/ O270(p) \/ O276(p) \/ O286(p)
    \/ C92(p) \/ C304(p) \/ C307(p) \/ C312(p)
    \/ Body(p) \/ BodyWait(p)
    \/ AddBody(p) \/ AddWait(p) \/ RmBody(p) \/ RmWait(p)
    \/ Return(p)

Next ==
    \/ \E p \in Procs : Invoke(p) \/ Step(p)
    \/ Tick

Spec == Init /\ [][Next]_vars

\* ---------------------------------------------- a single sequential caller
\* One client used by one caller, one method at a time.  A suspended
\* acquire() is resumed only by a release from another coroutine (O265);
\* with a single caller there is none, so O265 is no step of this
\* specification and a task that reaches "o265" stays there.
SeqCallers == {<<"c1", 1>>}

SeqInit ==
    /\ Init
    /\ login["c2"] = None
    /\ password["c2"] = None

SeqStep(p) ==
    \/ W92(p) \/ W101(p) \/ W104(p)
    \/ O92(p) \/ O264(p) \/ O269(p) \/ O270(p) \/ O276(p) \/ O286(p)
    \/ C92(p) \/ C304(p) \/ C307(p) \/ C312(p)
    \/ Body(p) \/ BodyWait(p)
    \/ AddBody(p) \/ AddWait(p) \/ RmBody(p) \/ RmWait(p)
    \/ Return(p)

SeqNext ==
    \/ \E p \in SeqCallers : Invoke(p) \/ SeqStep(p)
    \/ Tick

SeqSpec == SeqInit /\ [][SeqNext]_vars

\* ------------------------------------------ two clients sharing the gate
\* Two clients, one caller each, both constructed with credentials.  The
\* callers use the session methods and the guarded methods without explicit
\* credentials.  The server holds one account for the login and answers
\* within the second, so that no cookie expires.
GateCallers == {<<"c1", 1>>, <<"c2", 1>>}

GateOps == {"open", "close", "__aenter__", "account_info", "pub_account_info"}

GateInit ==
    /\ Init
    /\ login = [c \in Clients |-> "user"]
    /\ password = [c \in Clients |-> "pw"]

GateInvoke(p) ==
    /\ Invoke(p)
    /\ op'[p] \in GateOps
    /\ arg'[p].login = None
    /\ arg'[p].password = None

GateO286(p) ==
    /\ O286(p)
    /\ accounts'[ClientOf(p)] \in {NoAccounts, Some(<<1>>)}

GateStep(p) ==
    \/ W92(p) \/ W101(p) \/ W104(p)
    \/ O92(p) \/ O264(p) \/ O265(p) \/ O269(p) \/ O270(p) \/ O276(p) \/ GateO286(p)
    \/ C92(p) \/ C304(p) \/ C307(p) \/ C312(p)
    \/ Body(p) \/ BodyWait(p)
    \/ Return(p)

GateNext == \E p \in GateCallers : GateInvoke(p) \/ GateStep(p)

GateSpec == GateInit /\ [][GateNext]_vars

\* ------------------------------------------------------------------ claims
\* The session cookies in the jar of client c.
SessionCookies(c) ==
    {jar[c][i] : i \in {j \in 1..Len(jar[c]) : jar[c][j].key = "laravel_session"}}

\* The session cookie is absent, or its expiry is not later than now.
CookieDead(c) ==
    \/ SessionCookies(c) = {}
    \/ \E k \in SessionCookies(c) : k.expires <= now

NormalOps == GuardedOps \ PublicOps

\* C1: when the body of a guarded method that is neither check-only nor
\* public starts, the session is open and, the method requiring
\* authorization, authorized -- whatever the state was at the call.
C1_BodyStartsOpenAndAuthorized ==
    \A p \in Procs :
        (pc[p] = "body" /\ op[p] \in NormalOps) =>
            /\ opened(ClientOf(p))
            /\ token[ClientOf(p)] # None
            /\ (AuthRequired(op[p]) => authorized(ClientOf(p)))

\* C1 witness: a body starts in an operation that had to open the session.
C1_Witness ==
    \E p \in Procs :
        /\ pc[p] = "body"
        /\ op[p] = "account_info"
        /\ acquired[p]
        /\ sawOpen[p]

\* C2: at most one client has an open session at any time.
C2_OneOpenSession ==
    Cardinality({c \in Clients : opened(c)}) <= 1

\* C3: when the context-manager entry or a guarded method fails inside an
\* open() that acquired a permit, the client holds no permit once the entry
\* point is about to return to its caller.
C3_PermitReleasedAfterFailedOpen ==
    \A p \in Procs :
        (/\ pc[p] = "done"
         /\ op[p] \in GuardedOps \cup {"__aenter__"}
         /\ res[p].src = "open"
         /\ acquired[p]) =>
            held[ClientOf(p)] = 0

\* C4: the admission gate never has more than one available permit.
C4_AtMostOnePermit == sem <= 1

\* C5: when the body of a public method starts, the session is open, not
\* authorized, and its token was obtained after the method was called.
C5_PublicBodyFreshAnonymous ==
    \A p \in Procs :
        (pc[p] = "body" /\ op[p] \in PublicOps) =>
            /\ opened(ClientOf(p))
            /\ ~authorized(ClientOf(p))
            /\ sawOpen[p]

\* C6: when close() has completed, normally or with the logout request
\* failed, the token and the bound accounts are both absent.
C6_ClosedAfterClose ==
    \A p \in Procs :
        (pc[p] = "done" /\ op[p] = "close") =>
            /\ token[ClientOf(p)] = None
            /\ accounts[ClientOf(p)] = NoAccounts

\* C7: every operation starts with the expiry check; the check clears token
\* and bound accounts exactly when the session cookie is absent or its
\* expiry is not later than now, leaves them unchanged otherwise, and sends
\* no request.
C7_ExpiryCheck ==
    [][\A p \in Procs :
        LET c == ClientOf(p) IN
        /\ (pc[p] = "idle" /\ pc'[p] # "idle") => pc'[p] \in {"w92", "o92", "c92"}
        /\ (pc[p] \in {"w92", "o92", "c92"} /\ pc'[p] # pc[p]) =>
              /\ IF CookieDead(c)
                 THEN token'[c] = None /\ accounts'[c] = NoAccounts
                 ELSE token'[c] = token[c] /\ accounts'[c] = accounts[c]
              /\ req' = req
              /\ jar' = jar
      ]_vars

\* C7 witness: the check at the start of a guarded method has just cleared a
\* session whose cookie expires exactly now.
C7_Witness ==
    \E p \in Procs :
        /\ pc[p] = "w101"
        /\ op[p] \in NormalOps
        /\ lastCheck[ClientOf(p)] = "cleared"
        /\ \E k \in SessionCookies(ClientOf(p)) : k.expires = now

\* The step in which task p receives the answer to its POST /login.
LoginAnswered(p) ==
    /\ pc[p] = "o286"
    /\ pc'[p] # "o286"
    /\ resp'[p].kind = "login"

\* What the rejected login leaves behind: an authorization error, no bound
\* accounts, the cached credentials as they were.
LoginFails(p, e) ==
    LET c == ClientOf(p) IN
    /\ res'[p] = Err(e, "open")
    /\ accounts'[c] = NoAccounts
    /\ login'[c] = login[c]
    /\ password'[c] = password[c]

\* The success path: the bound accounts are those of the answer and the
\* cached pair is the pair that was sent, explicit arguments first.
LoginSucceeds(p) ==
    LET c == ClientOf(p) IN
    /\ res'[p].src # "open"
    /\ accounts'[c] = resp'[p].ids
    /\ req[p].login = OrElse(call[p].login, login[c])
    /\ req[p].password = OrElse(call[p].password, password[c])
    /\ login'[c] = req[p].login
    /\ password'[c] = req[p].password

\* The final URL equals the first URL of the redirect history.
SamePage(r) == r.history # <<>> /\ r.url = r.history[1]

\* C8 as stated: a login answer whose final URL equals the first URL of its
\* redirect history fails open() with an authorization error; any other
\* answer takes the success path.
C8_AnyOtherAnswerSucceeds ==
    [][\A p \in Procs :
        LoginAnswered(p) =>
            IF SamePage(resp'[p])
            THEN LoginFails(p, "AuthorizationError")
            ELSE LoginSucceeds(p)
      ]_vars

\* C9: account_add of an account already bound, whatever the bill amount,
\* and account_rm of an account not bound return normally without sending
\* a request and leave the bound accounts unchanged.
C9_BindUnbindNoOp ==
    [][\A p \in Procs :
        LET c == ClientOf(p)
            bound == arg[p].account \in Elems(accounts[c].ids)
        IN
        (/\ pc[p] = "body"
         /\ pc'[p] # "body"
         /\ accounts[c].some
         /\ \/ op[p] = "account_add" /\ bound
            \/ op[p] = "account_rm" /\ ~bound)
        => /\ pc'[p] = "done"
           /\ res'[p] = Ok
           /\ req' = req
           /\ accounts' = accounts
      ]_vars

\* C9 witness: account_add of a bound account with a non-positive amount has
\* returned normally without an answer from the binding endpoint.
C9_Witness ==
    \E p \in Procs :
        /\ pc[p] = "done"
        /\ op[p] = "account_add"
        /\ res[p] = Ok
        /\ BillAmount(arg[p]) <= 0
        /\ resp[p].kind # "accounts"
        /\ arg[p].account \in Elems(accounts[ClientOf(p)].ids)

\* C10: once the binding endpoint has answered, account_add returns normally
\* exactly when the account is in the answer's list and account_rm exactly
\* when it is not; otherwise they fail with a binding error; either way the
\* client's bound accounts are the answer's list.
C10_BindingVerified ==
    \A p \in Procs :
        (pc[p] = "done" /\ resp[p].kind = "accounts") =>
            LET c == ClientOf(p)
                listed == arg[p].account \in Elems(resp[p].ids.ids)
            IN
            /\ accounts[c] = resp[p].ids
            /\ op[p] \in {"account_add", "account_rm"}
            /\ op[p] = "account_add" =>
                  res[p] = IF listed THEN Ok ELSE Err("AccountBindingError", "body")
            /\ op[p] = "account_rm" =>
                  res[p] = IF listed THEN Err("AccountBindingError", "body") ELSE Ok

\* C10 witness: account_add has failed with a binding error on an answer
\* that does not list the account.
C10_Witness ==
    \E p \in Procs :
        /\ pc[p] = "done"
        /\ op[p] = "account_add"
        /\ resp[p].kind = "accounts"
        /\ res[p].kind = "AccountBindingError"
        /\ arg[p].account \notin Elems(accounts[ClientOf(p)].ids)

\* ============================================================ data methods
\* The bodies below are taken on their own: the guard has let the call
\* through and the session does not change while they run.

MaxRows == 3          \* rows the server holds / entries of a submitted mapping
PageLimit == 3        \* rows per history page (25 at line 486), scaled down

\* The session as the data methods find it.
DataSession ==
    /\ SessionInit
    /\ login = [c \in Clients |-> None]
    /\ password = [c \in Clients |-> None]

\* Sequences over S of length at most n.
SeqsUpTo(S, n) == UNION {[1..k -> S] : k \in 0..n}

\* The method has returned or raised.
DataDone == locals.pc = "done"

\* return / raise of a data method
DataReturn(v) ==
    /\ ret' = [kind |-> "ok", value |-> v]
    /\ locals' = [locals EXCEPT !.pc = "done"]

DataRaise(e, why) ==
    /\ ret' = [kind |-> e, value |-> why]
    /\ locals' = [locals EXCEPT !.pc = "done"]

\* ------------------------------------------------------ _set_meters_values
MeterIds == {1, 2, 3}
NewValues == {4, 5, 6}

\* The devices parse_meters finds in the page, with their last values.
MeterPages == {[i \in K |-> 5] : K \in {{1}, {1, 2}}}

\* Mappings id -> value in insertion order: no id twice.
ValueMaps ==
    {m \in SeqsUpTo(MeterIds \X NewValues, MaxRows) :
        \A i, j \in 1..Len(m) : i # j => m[i][1] # m[j][1]}

GreaterOrEqual(v, last) == v >= last

\* line 697: value > m.value
Greater(v, last) == v > last

\* lines 695-708: the loop over the submitted values; it yields the form
\* data, or the error of the first entry that is refused.
RECURSIVE SmvLoop(_, _, _, _)
SmvLoop(values, meters, i, data) ==
    IF i > Len(values)
    THEN [kind |-> "ok", value |-> data]
    ELSE LET id == values[i][1]
             value == values[i][2]
         IN IF id \in DOMAIN meters
            THEN IF Greater(value, meters[id])
                 THEN SmvLoop(values, meters, i + 1, Append(data, <<id, value>>))
                 ELSE [kind |-> "ValueError", value |-> "not above the current value"]
            ELSE [kind |-> "ValueError", value |-> "meter not found"]

SmvInit ==
    /\ DataSession
    /\ fn = "_set_meters_values"
    /\ params \in [path : {"/counters/1"}, values : ValueMaps]
    /\ server \in MeterPages
    /\ locals = [pc |-> "call"]
    /\ sent = <<>>
    /\ ret = NoRes

\* lines 682-686: nothing to submit, or the page of the meters is requested
SmvCall ==
    /\ fn = "_set_meters_values"
    /\ locals.pc = "call"
    /\ IF params.values = <<>>
       THEN DataReturn(None) /\ UNCHANGED sent
       ELSE /\ sent' = Append(sent, [kind |-> "GET", path |-> params.path])
            /\ locals' = [locals EXCEPT !.pc = "page"]
            /\ UNCHANGED ret
    /\ UNCHANGED <<fn, params, server, sessionVars>>

\* lines 686-710: the page arrives; the values are checked and posted
SmvPage ==
    /\ fn = "_set_meters_values"
    /\ locals.pc = "page"
    /\ \/ DataRaise("ClientError", "GET") /\ UNCHANGED sent
       \/ LET x == SmvLoop(params.values, server, 1, <<>>) IN
          IF x.kind = "ok"
          THEN /\ sent' = Append(sent, [kind |-> "POST", path |-> params.path,
                                        ls |-> 1, counters |-> x.value])
               /\ locals' = [locals EXCEPT !.pc = "post"]
               /\ UNCHANGED ret
          ELSE DataRaise(x.kind, x.value) /\ UNCHANGED sent
    /\ UNCHANGED <<fn, params, server, sessionVars>>

\* lines 710-711: the answer to the POST
SmvPosted ==
    /\ fn = "_set_meters_values"
    /\ locals.pc = "post"
    /\ \/ DataReturn(None)
       \/ DataRaise("ClientError", "POST")
    /\ UNCHANGED <<fn, params, server, sent, sessionVars>>

SmvNext == SmvCall \/ SmvPage \/ SmvPosted

SmvSpec == SmvInit /\ [][SmvNext]_vars

\* -------------------------------------------------------------- claim C11
Posts == {i \in 1..Len(sent) : sent[i].kind = "POST"}

\* Entries of the submitted mapping for a device the page does not list,
\* and entries whose value is not above the device's last value.
UnknownEntries ==
    {i \in 1..Len(params.values) : params.values[i][1] \notin DOMAIN server}

LowEntries ==
    {i \in 1..Len(params.values) :
        /\ params.values[i][1] \in DOMAIN server
        /\ params.values[i][2] <= server[params.values[i][1]]}

\* C11: submitting readings fails with a validation error if a value is not
\* strictly above the device's last value and with a not-found error if a
\* device id is unknown; in either case no readings POST is issued, and an
\* empty mapping issues no request at all.
C11_InvalidReadingsSubmitNothing ==
    /\ params.values = <<>> => sent = <<>>
    /\ (UnknownEntries \cup LowEntries # {}) =>
          /\ Posts = {}
          /\ (DataDone /\ ret.kind # "ClientError") =>
                /\ ret.kind = "ValueError"
                /\ UnknownEntries = {} => ret.value = "not above the current value"
                /\ LowEntries = {} => ret.value = "meter not found"

\* C11 witness: a mapping whose first entry is acceptable and whose second
\* is not above the last value has been refused after the page was fetched.
C11_Witness ==
    /\ DataDone
    /\ Len(params.values) >= 2
    /\ 1 \notin UnknownEntries \cup LowEntries
    /\ 2 \in LowEntries
    /\ params.values[2][2] = server[params.values[2][1]]
    /\ ret.kind = "ValueError"
    /\ Len(sent) = 1

\* ---------------------------------------------------------- meters_history
MaxQueries == 4       \* the page loop is followed for at most this many queries

Days == {1, 2, 3}

\* Rows of the counters history: device key, date, value, consumption and
\* source.  Device A has a row without consumption and two readings a day,
\* device B one reading a day.
HistoryRows ==
    {[key |-> x[1], date |-> d, value |-> x[2], consumption |-> x[3], source |-> "s"] :
        d \in Days, x \in {<<"A", 1, 0>>, <<"A", 1, 1>>, <<"A", 2, 1>>, <<"B", 1, 1>>}}

\* line 498: MeterValue(end, float(value), consumption, source)
MeterValue(r) ==
    [date |-> r.date, value |-> r.value, consumption |-> r.consumption,
     source |-> r.source]

\* The rows of the window [start, end], in the server's order.
InWindow(rows, start, end) ==
    SelectSeq(rows, LAMBDA r : start <= r.date /\ r.date <= end)

Take(q, n) == SubSeq(q, 1, IF Len(q) < n THEN Len(q) ELSE n)

\* The pages the server can answer a query with: the newest rows of the
\* window in its own (descending) order, or any rows of the window in any
\* order; never more than the page limit.
Pages(srv, start, end) ==
    IF srv.order = "newest"
    THEN {Take(InWindow(srv.rows, start, end), PageLimit)}
    ELSE LET W == InWindow(srv.rows, start, end)
         IN SeqsUpTo({W[i] : i \in 1..Len(W)}, PageLimit)

ZeroNever(c) == FALSE

\* line 494: not float(consumption)
Zero(c) == c = 0

\* line 501: db.setdefault(key, []).append(value), db in insertion order
DbAppend(db, k, v) ==
    IF \E i \in 1..Len(db) : db[i].key = k
    THEN [i \in 1..Len(db) |->
            IF db[i].key = k
            THEN [db[i] EXCEPT !.values = Append(@, v)]
            ELSE db[i]]
    ELSE Append(db, [key |-> k, values |-> <<v>>])

NextEndEarliest(end, date) == IF date < end THEN date ELSE end

\* line 491: end := str_to_date(date[27:35]), for every row of the page
NextEnd(end, date) == date

\* lines 490-501: the loop over the rows of one page
RECURSIVE MhRows(_, _, _)
MhRows(history, i, st) ==
    IF i > Len(history)
    THEN st
    ELSE LET r == history[i]
             st1 == [st EXCEPT !.end = NextEnd(@, r.date),
                               !.dates = @ \cup {r.date}]
         IN IF Zero(r.consumption)
            THEN MhRows(history, i + 1, st1)
            ELSE MhRows(history, i + 1,
                        [st1 EXCEPT !.db = DbAppend(@, r.key, MeterValue(r))])

KeepAll(q) == q

\* line 520: tuple(dict.fromkeys(v)) keeps the first of equal readings
RECURSIVE FromKeys(_)
FromKeys(q) ==
    IF q = <<>>
    THEN <<>>
    ELSE LET front == FromKeys(SubSeq(q, 1, Len(q) - 1))
             last == q[Len(q)]
         IN IF \E i \in 1..Len(front) : front[i] = last
            THEN front
            ELSE Append(front, last)

\* lines 519-521: the result
MhResult(db) ==
    [i \in 1..Len(db) |-> [key |-> db[i].key, values |-> FromKeys(db[i].values)]]

HistoryQuery(start, end) ==
    [kind |-> "GET", path |-> "countersHistory", from |-> start, to |-> end]

\* The descending lists of rows a server can hold.
Descending(rows) ==
    \A i \in 1..(Len(rows) - 1) : rows[i].date >= rows[i + 1].date

MhStart(orders, rowsets) ==
    /\ DataSession
    /\ fn = "meters_history"
    /\ params \in [start : Days, end : Days]
    /\ server \in [order : orders, rows : rowsets]
    /\ locals = [pc |-> "call", start |-> params.start, end |-> params.end,
                 db |-> <<>>, warned |-> FALSE, fetched |-> <<>>, last |-> <<>>]
    /\ sent = <<>>
    /\ ret = NoRes

\* lines 478-483: the window is checked and the first page requested
MhCall ==
    /\ fn = "meters_history"
    /\ locals.pc = "call"
    /\ IF locals.start <= locals.end
       THEN /\ sent' = Append(sent, HistoryQuery(locals.start, locals.end))
            /\ locals' = [locals EXCEPT !.pc = "page"]
            /\ UNCHANGED ret
       ELSE DataRaise("AssertionError", "start <= end") /\ UNCHANGED sent
    /\ UNCHANGED <<fn, params, server, sessionVars>>

\* lines 483-521: a page arrives and is accumulated; the loop ends with the
\* result or asks for the next window
MhPage ==
    /\ fn = "meters_history"
    /\ locals.pc = "page"
    /\ \/ DataRaise("ClientError", "GET") /\ UNCHANGED sent
       \/ \E history \in Pages(server, locals.start, locals.end) :
            LET st == MhRows(history, 1,
                             [end |-> locals.end, dates |-> {}, db |-> locals.db])
                one == Cardinality(st.dates) = 1
                seen == [locals EXCEPT !.db = st.db,
                                       !.end = st.end,
                                       !.warned = @ \/ (Len(history) = PageLimit /\ one),
                                       !.fetched = @ \o history,
                                       !.last = history]
            IN IF \/ Len(history) < PageLimit
                  \/ one /\ locals.start = st.end
               THEN /\ ret' = [kind |-> "ok", value |-> MhResult(st.db)]
                    /\ locals' = [seen EXCEPT !.pc = "done"]
                    /\ UNCHANGED sent
               ELSE LET end == IF one THEN st.end - 1 ELSE st.end IN
                    /\ Len(sent) < MaxQueries
                    /\ sent' = Append(sent, HistoryQuery(locals.start, end))
                    /\ locals' = [seen EXCEPT !.end = end]
                    /\ UNCHANGED ret
    /\ UNCHANGED <<fn, params, server, sessionVars>>

MhNext == MhCall \/ MhPage

\* A server that answers each query with the newest rows of the window.
MhInit ==
    MhStart({"newest"}, {q \in SeqsUpTo(HistoryRows, MaxRows + 1) : Descending(q)})

MhSpec == MhInit /\ [][MhNext]_vars

\* A server that answers with any rows of the window, in any order.
PagingRows == {r \in HistoryRows : r.key = "A" /\ r.value = 2}

PagingInit == MhStart({"any"}, SeqsUpTo(PagingRows, MaxRows))

PagingSpec == PagingInit /\ [][MhNext]_vars

\* A server that holds at most one row a day and answers with any rows of
\* the window, in any order.
Ascending(rows) ==
    \A i \in 1..(Len(rows) - 1) : rows[i].date < rows[i + 1].date

OrderInit ==
    MhStart({"any"}, {q \in SeqsUpTo(PagingRows, MaxRows) : Ascending(q)})

MaxRequeries == 1     \* queries after the first that this specification follows

\* The loop is followed through the first page and the queries after it, up
\* to the answer to the last of them.
FewRequeries == Len(sent') <= 1 + MaxRequeries

OrderNext ==
    \/ MhCall /\ FewRequeries
    \/ MhPage /\ FewRequeries

OrderSpec == OrderInit /\ [][OrderNext]_vars

\* ------------------------------------------------------ claims C12 to C14
\* The rows with consumption among all the rows fetched, in fetch order.
Fetched == SelectSeq(locals.fetched, LAMBDA r : r.consumption # 0)

\* The position at which x first occurs in q.
FirstAt(q, x) == CHOOSE i \in 1..Len(q) : q[i] = x /\ \A j \in 1..(i - 1) : q[j] # x

NoRepeats(q) == \A i, j \in 1..Len(q) : i # j => q[i] # q[j]

\* q lists the members of its range in the order in which they first occur in f.
FirstSeenOrder(q, f) ==
    \A i, j \in 1..Len(q) : i < j => FirstAt(f, q[i]) < FirstAt(f, q[j])

Range(q) == {q[i] : i \in 1..Len(q)}

KeysOf(rows) == [i \in 1..Len(rows) |-> rows[i].key]

ReadingsOf(rows, k) ==
    LET mine == SelectSeq(rows, LAMBDA r : r.key = k)
    IN [i \in 1..Len(mine) |-> MeterValue(mine[i])]

MhReturned == fn = "meters_history" /\ DataDone /\ ret.kind = "ok"

\* C12: in the result of meters_history no device's list holds two readings
\* equal in all fields, the readings are in the order of their first
\* occurrence across the fetched pages, and so are the device keys.
C12_HistoryDeduplicated ==
    MhReturned =>
        LET keys == [i \in 1..Len(ret.value) |-> ret.value[i].key] IN
        /\ NoRepeats(keys)
        /\ Range(keys) = Range(KeysOf(Fetched))
        /\ FirstSeenOrder(keys, KeysOf(Fetched))
        /\ \A i \in 1..Len(ret.value) :
              LET v == ret.value[i].values
                  f == ReadingsOf(Fetched, ret.value[i].key)
              IN /\ NoRepeats(v)
                 /\ Range(v) = Range(f)
                 /\ FirstSeenOrder(v, f)

\* C12 witness: a call over overlapping pages has returned; a reading was
\* fetched twice with a different reading in between.
C12_Witness ==
    /\ MhReturned
    /\ Len(sent) >= 2
    /\ \E i, j \in 1..Len(Fetched) :
          /\ i + 1 < j
          /\ Fetched[i] = Fetched[j]
          /\ Fetched[i + 1] # Fetched[i]
          /\ Fetched[i + 1].key = Fetched[i].key

\* C13: the page loop stops on a page shorter than the limit and on a full
\* page whose rows all have the date start; otherwise the next query has a
\* strictly earlier upper bound than the previous one.
C13_PagingAdvances ==
    fn = "meters_history" =>
        /\ \A i \in 1..(Len(sent) - 1) : sent[i + 1].to < sent[i].to
        /\ (locals.pc = "page" /\ Len(sent) >= 2) =>
              /\ Len(locals.last) = PageLimit
              /\ \E i \in 1..Len(locals.last) : locals.last[i].date # locals.start

\* The dates of the rows of a page.
PageDates(page) == {page[i].date : i \in 1..Len(page)}

Latest(S) == CHOOSE d \in S : \A e \in S : e <= d

\* A further query was sent after the page locals.last.
Requeried == fn = "meters_history" /\ locals.pc = "page" /\ Len(sent) >= 2

\* The upper bound of the query that followed a page whose rows left end at
\* date d: the day before d if the page held a single date, else d.
SteppedBack(page, d) == IF Cardinality(PageDates(page)) = 1 THEN d - 1 ELSE d

\* C21 as stated: the upper bound of the query that follows a page is the
\* latest of the dates appearing in the page (stepped back a day when the
\* page holds a single date), in whatever order the server lists the rows.
C21_EndIsLatestDate ==
    Requeried =>
        sent[Len(sent)].to = SteppedBack(locals.last, Latest(PageDates(locals.last)))

\* C21 amended: the upper bound of the query that follows a page is the date
\* of the last row of the page as the server listed it (stepped back a day
\* when the page holds a single date), and it is the earliest date of the
\* page when the rows are listed newest first.
C21_EndIsLastRowDate ==
    Requeried =>
        LET page == locals.last
            d == page[Len(page)].date
        IN /\ sent[Len(sent)].to = SteppedBack(page, d)
           /\ locals.end = sent[Len(sent)].to
           /\ Descending(page) => \A e \in PageDates(page) : d <= e

\* C21 witness: a further query followed a full page of several dates whose
\* last row carries neither the latest nor the earliest of them.
C21_Witness ==
    /\ Requeried
    /\ LET page == locals.last
           d == page[Len(page)].date
       IN /\ \E e \in PageDates(page) : e < d
          /\ \E e \in PageDates(page) : e > d
          /\ sent[Len(sent)].to = d

\* The readings the server holds for device k in the requested window.
Due(k) ==
    {MeterValue(server.rows[i]) : i \in
        {j \in 1..Len(server.rows) :
            /\ server.rows[j].key = k
            /\ server.rows[j].consumption # 0
            /\ params.start <= server.rows[j].date
            /\ server.rows[j].date <= params.end}}

\* The readings the result lists for device k.
Listed(k) ==
    UNION {Range(ret.value[i].values) :
             i \in {j \in 1..Len(ret.value) : ret.value[j].key = k}}

\* C14: against a server answering with the newest rows of the window in
\* descending date order, the result holds every reading with consumption
\* dated in the window, once per device, unless the completeness warning was
\* emitted; rows without consumption never appear.
C14_HistoryComplete ==
    MhReturned =>
        /\ \A i \in 1..Len(ret.value) :
              \A n \in 1..Len(ret.value[i].values) :
                  ret.value[i].values[n].consumption # 0
        /\ ~locals.warned =>
              /\ \A k \in {"A", "B"} : Listed(k) = Due(k)
              /\ \A i \in 1..Len(ret.value) : NoRepeats(ret.value[i].values)

\* C14 witness: a call that needed several pages has returned without the
\* warning, the server holding a row without consumption in the window.
C14_Witness ==
    /\ MhReturned
    /\ ~locals.warned
    /\ Len(sent) >= 3
    /\ Due("A") # {}
    /\ Due("B") # {}
    /\ \E i \in 1..Len(locals.fetched) : locals.fetched[i].consumption = 0

\* -------------------------------------------------------- accruals_history
\* Rows of the accruals history: period and total charge.
AccrualRows == [date : {1, 2}, summa : {0, 5}]

\* line 554: MonthAccrual(account, date_attr(date), *floats)
MonthAccrual(r) == [date |-> r.date, summa |-> r.summa, details |-> FALSE]

NoChargeNever(a) == FALSE

\* line 558: not accrual.summa
NoCharge(a) == a.summa = 0

\* lines 552-561: the loop over the rows, left at the first row without charge
RECURSIVE AhLoop(_, _, _)
AhLoop(resp_, i, result) ==
    IF i > Len(resp_)
    THEN result
    ELSE LET accrual == MonthAccrual(resp_[i])
         IN IF NoCharge(accrual)
            THEN result
            ELSE AhLoop(resp_, i + 1, Append(result, accrual))

\* lines 434-438: one accrualsDetalization request for a record
DetailsQuery(a) == [kind |-> "GET", path |-> "accrualsDetalization", month |-> a.date]

\* lines 440-443: the record with its details filled in
WithDetails(result) == [i \in 1..Len(result) |-> [result[i] EXCEPT !.details = TRUE]]

AhInit ==
    /\ DataSession
    /\ fn = "accruals_history"
    /\ params \in [start : {1, 2}, end : {1, 2}, bound : BOOLEAN,
                   include_details : BOOLEAN]
    /\ server \in SeqsUpTo(AccrualRows, MaxRows)
    /\ locals = [pc |-> "call", result |-> <<>>]
    /\ sent = <<>>
    /\ ret = NoRes

\* lines 544-550: the account is resolved, the window checked, the rows requested
AhCall ==
    /\ fn = "accruals_history"
    /\ locals.pc = "call"
    /\ IF ~params.bound
       THEN DataRaise("AccountNotFound", "_account") /\ UNCHANGED sent
       ELSE IF params.start > params.end
       THEN DataRaise("AssertionError", "start <= end") /\ UNCHANGED sent
       ELSE /\ sent' = Append(sent, [kind |-> "GET", path |-> "accrualsHistory",
                                     from |-> params.start, to |-> params.end])
            /\ locals' = [locals EXCEPT !.pc = "rows"]
            /\ UNCHANGED ret
    /\ UNCHANGED <<fn, params, server, sessionVars>>

\* lines 550-566: the rows arrive; the result is returned, or its details
\* are requested first, one request per record
AhRows ==
    /\ fn = "accruals_history"
    /\ locals.pc = "rows"
    /\ \/ DataRaise("ClientError", "GET") /\ UNCHANGED sent
       \/ LET result == AhLoop(server, 1, <<>>) IN
          IF params.include_details /\ result # <<>>
          THEN /\ sent' = sent \o [i \in 1..Len(result) |-> DetailsQuery(result[i])]
               /\ locals' = [locals EXCEPT !.pc = "details", !.result = result]
               /\ UNCHANGED ret
          ELSE /\ ret' = [kind |-> "ok", value |-> result]
               /\ locals' = [locals EXCEPT !.pc = "done", !.result = result]
               /\ UNCHANGED sent
    /\ UNCHANGED <<fn, params, server, sessionVars>>

\* lines 563-566: the details have arrived, or one of their requests failed
AhDetails ==
    /\ fn = "accruals_history"
    /\ locals.pc = "details"
    /\ \/ DataRaise("ClientError", "GET")
       \/ DataReturn(WithDetails(locals.result))
    /\ UNCHANGED <<fn, params, server, sent, sessionVars>>

AhNext == AhCall \/ AhRows \/ AhDetails

AhSpec == AhInit /\ [][AhNext]_vars

\* -------------------------------------------------------------- claim C15
AhReturned == fn = "accruals_history" /\ DataDone /\ ret.kind = "ok"

\* C15: accruals_history returns exactly the longest prefix of the server's
\* rows, in server order, in which every row has a non-zero total charge.
C15_LongestChargedPrefix ==
    AhReturned =>
        LET n == Len(ret.value) IN
        /\ n <= Len(server)
        /\ \A i \in 1..n :
              /\ ret.value[i].date = server[i].date
              /\ ret.value[i].summa = server[i].summa
              /\ server[i].summa # 0
        /\ n < Len(server) => server[n + 1].summa = 0

\* C15 witness: a charged row that follows a row without charge is left out.
C15_Witness ==
    /\ AhReturned
    /\ Len(server) = 3
    /\ server[1].summa # 0
    /\ server[2].summa = 0
    /\ server[3].summa # 0
    /\ Len(ret.value) = 1

\* ------------------------------------------------------------ year_accruals
\* The tags of the receipt rows: "general" stands for the tag of a general
\* bill (line 410), "penalty" for the tag of a penalty bill (line 412), and
\* "other" for any other text.
BillTag == "general"
PeniTag == "penalty"
Tags == {BillTag, PeniTag, "other"}

\* The receipt rows of a year: date, tag and document id; every document has
\* its own id.
ReceiptRows ==
    {[i \in 1..Len(q) |-> [date |-> q[i].date, tag |-> q[i].tag, id |-> 10 + i]] :
        q \in SeqsUpTo([date : Days, tag : Tags], MaxRows)}

\* The limits a caller passes; 0 stands for None (line 393 treats them alike).
Limits == {0, 1, 2}

KnownTagAlways(tag) == TRUE

\* lines 409-414: the tags the match statement knows
KnownTag(tag) == tag \in {BillTag, PeniTag}

\* lines 396-404: db.setdefault(date, Accrual(...)), db in insertion order
SetDefault(db, row) ==
    IF \E i \in 1..Len(db) : db[i].date = row.date
    THEN db
    ELSE Append(db, [date |-> row.date, summa |-> row.id, bill_id |-> 0,
                     peni_id |-> 0, details |-> FALSE])

\* lines 409-413: the id goes to the record of the row's date
SetId(db, row) ==
    [i \in 1..Len(db) |->
        IF db[i].date # row.date
        THEN db[i]
        ELSE IF row.tag = BillTag
             THEN [db[i] EXCEPT !.bill_id = row.id]
             ELSE [db[i] EXCEPT !.peni_id = row.id]]

\* lines 390-414: the loop over the rows
RECURSIVE YaLoop(_, _, _, _)
YaLoop(resp_, i, db, limit) ==
    IF i > Len(resp_)
    THEN [kind |-> "ok", value |-> db]
    ELSE LET row == resp_[i]
             known == \E n \in 1..Len(db) : db[n].date = row.date
         IN IF limit # 0 /\ limit = Len(db) /\ ~known
            THEN [kind |-> "ok", value |-> db]
            ELSE IF KnownTag(row.tag)
                 THEN YaLoop(resp_, i + 1, SetId(SetDefault(db, row), row), limit)
                 ELSE [kind |-> "ParsingError", value |-> row.tag]

YaInit ==
    /\ DataSession
    /\ fn = "year_accruals"
    /\ params \in [limit : Limits, bound : BOOLEAN, include_details : BOOLEAN]
    /\ server \in ReceiptRows
    /\ locals = [pc |-> "call", result |-> <<>>]
    /\ sent = <<>>
    /\ ret = NoRes

\* lines 382-386: the account is resolved and the receipts requested
YaCall ==
    /\ fn = "year_accruals"
    /\ locals.pc = "call"
    /\ IF ~params.bound
       THEN DataRaise("AccountNotFound", "_account") /\ UNCHANGED sent
       ELSE /\ sent' = Append(sent, [kind |-> "GET", path |-> "getReceipts"])
            /\ locals' = [locals EXCEPT !.pc = "rows"]
            /\ UNCHANGED ret
    /\ UNCHANGED <<fn, params, server, sessionVars>>

\* lines 384-421: the rows arrive and are grouped by date
YaRows ==
    /\ fn = "year_accruals"
    /\ locals.pc = "rows"
    /\ \/ DataRaise("ClientError", "GET") /\ UNCHANGED sent
       \/ LET x == YaLoop(server, 1, <<>>, params.limit) IN
          IF x.kind # "ok"
          THEN DataRaise(x.kind, x.value) /\ UNCHANGED sent
          ELSE IF params.include_details /\ x.value # <<>>
          THEN /\ sent' = sent \o [i \in 1..Len(x.value) |-> DetailsQuery(x.value[i])]
               /\ locals' = [locals EXCEPT !.pc = "details", !.result = x.value]
               /\ UNCHANGED ret
          ELSE /\ ret' = [kind |-> "ok", value |-> x.value]
               /\ locals' = [locals EXCEPT !.pc = "done", !.result = x.value]
               /\ UNCHANGED sent
    /\ UNCHANGED <<fn, params, server, sessionVars>>

\* lines 418-421: the details have arrived, or one of their requests failed
YaDetails ==
    /\ fn = "year_accruals"
    /\ locals.pc = "details"
    /\ \/ DataRaise("ClientError", "GET")
       \/ DataReturn(WithDetails(locals.result))
    /\ UNCHANGED <<fn, params, server, sent, sessionVars>>

YaNext == YaCall \/ YaRows \/ YaDetails

YaSpec == YaInit /\ [][YaNext]_vars

\* ------------------------------------------------------ claims C16 and C17
YaReturned == fn = "year_accruals" /\ DataDone /\ ret.kind = "ok"

\* The dates of the server rows and of the records returned.
RowDates == [i \in 1..Len(server) |-> server[i].date]
RecordDates == [i \in 1..Len(ret.value) |-> ret.value[i].date]

\* The id that the rows of date d with tag t give: that of the last such
\* row, 0 when there is none.
IdOf(d, t) ==
    LET S == {i \in 1..Len(server) : server[i].date = d /\ server[i].tag = t}
    IN IF S = {} THEN 0 ELSE server[CHOOSE i \in S : \A j \in S : j <= i].id

\* Every record carries the ids of the rows of its date.
IdsComplete ==
    \A i \in 1..Len(ret.value) :
        /\ ret.value[i].bill_id = IdOf(ret.value[i].date, BillTag)
        /\ ret.value[i].peni_id = IdOf(ret.value[i].date, PeniTag)

\* C16: without a limit, year_accruals returns one record per distinct date
\* in the order of the dates' first occurrence, a general-bill row setting
\* its date's bill id and a penalty row its penalty id; a row with any other
\* tag makes the call fail with a parsing error.
C16_ReceiptsGroupedByDate ==
    (/\ fn = "year_accruals"
     /\ DataDone
     /\ params.limit = 0
     /\ ret.kind \notin {"AccountNotFound", "ClientError"}) =>
        IF \E i \in 1..Len(server) : server[i].tag \notin {BillTag, PeniTag}
        THEN ret.kind = "ParsingError"
        ELSE /\ ret.kind = "ok"
             /\ NoRepeats(RecordDates)
             /\ Range(RecordDates) = Range(RowDates)
             /\ FirstSeenOrder(RecordDates, RowDates)
             /\ IdsComplete

\* C16 witness: two rows of one date, separated by a row of another date,
\* have given one record with both ids.
C16_Witness ==
    /\ YaReturned
    /\ params.limit = 0
    /\ Len(server) = 3
    /\ Len(ret.value) = 2
    /\ ret.value[1].bill_id = 11
    /\ ret.value[1].peni_id = 13

\* The number of distinct dates among the server rows.
DistinctDates == Cardinality(Range(RowDates))

\* C17: with limit n >= 1, year_accruals returns exactly the records of the
\* first min(n, number of distinct dates) distinct dates in server order,
\* each with the ids of all server rows of its date wherever they occur.
C17_LimitKeepsAllIds ==
    (YaReturned /\ params.limit >= 1) =>
        /\ Len(ret.value) =
              IF params.limit < DistinctDates THEN params.limit ELSE DistinctDates
        /\ NoRepeats(RecordDates)
        /\ FirstSeenOrder(RecordDates, RowDates)
        /\ \A i \in 1..Len(server) :
              (\E n \in 1..Len(ret.value) : RecordDates[n] = server[i].date)
              \/ \A n \in 1..Len(ret.value) :
                    FirstAt(RowDates, RecordDates[n]) < FirstAt(RowDates, server[i].date)
        /\ IdsComplete

\* ------------------------------------------------- download_pdf, qr_codes
\* The two downloads qr_codes starts: the general bill (peni=False) and the
\* penalty bill (peni=True).
Downloads == {"bill", "peni"}

\* b"" and the content of a file
Empty == "empty"
Pdf == "pdf"

\* line 332: the id of the document wanted, 0 standing for None
DocumentId(accrual, d) == IF d = "peni" THEN accrual.peni_id ELSE accrual.bill_id

QrInit ==
    /\ DataSession
    /\ fn = "qr_codes"
    /\ params \in [bill_id : {0, 7}, peni_id : {0, 8}]
    /\ server = None
    /\ locals = [pc |-> "call",
                 task |-> [d \in Downloads |-> [pc |-> "new", out |-> NoRes]]]
    /\ sent = <<>>
    /\ ret = NoRes

TaskReturn(d, v) ==
    locals' = [locals EXCEPT !.task[d] = [pc |-> "done",
                                          out |-> [kind |-> "ok", value |-> v]]]

TaskRaise(d, e) ==
    locals' = [locals EXCEPT !.task[d] = [pc |-> "done",
                                          out |-> [kind |-> e, value |-> None]]]

\* lines 354-357: gather() schedules both downloads
QrCall ==
    /\ fn = "qr_codes"
    /\ locals.pc = "call"
    /\ locals' = [locals EXCEPT !.pc = "gather",
                                !.task = [d \in Downloads |-> [@[d] EXCEPT !.pc = "call"]]]
    /\ UNCHANGED <<fn, params, server, sent, ret, sessionVars>>

\* lines 332-336: no document id, or the receipt is looked up
DlCall(d) ==
    /\ fn = "qr_codes"
    /\ locals.task[d].pc = "call"
    /\ IF DocumentId(params, d) = 0
       THEN TaskReturn(d, Empty) /\ UNCHANGED sent
       ELSE /\ sent' = Append(sent, [kind |-> "GET", path |-> "getReceipt",
                                     receiptId |-> DocumentId(params, d)])
            /\ locals' = [locals EXCEPT !.task[d].pc = "lookup"]
    /\ UNCHANGED <<fn, params, server, ret, sessionVars>>

\* lines 335-341: the lookup fails, or answers with or without a file
\* reference; with one, the file is requested
DlLookup(d) ==
    /\ fn = "qr_codes"
    /\ locals.task[d].pc = "lookup"
    /\ \/ TaskReturn(d, Empty) /\ UNCHANGED sent
       \/ TaskRaise(d, "KeyError") /\ UNCHANGED sent
       \/ /\ sent' = Append(sent, [kind |-> "GET", path |-> "file",
                                   receiptId |-> DocumentId(params, d)])
          /\ locals' = [locals EXCEPT !.task[d].pc = "file"]
    /\ UNCHANGED <<fn, params, server, ret, sessionVars>>

\* lines 341-342: the file arrives, or its request fails
DlFile(d) ==
    /\ fn = "qr_codes"
    /\ locals.task[d].pc = "file"
    /\ \/ TaskReturn(d, Pdf)
       \/ TaskRaise(d, "ClientError")
    /\ UNCHANGED <<fn, params, server, sent, ret, sessionVars>>

\* lines 354-359: gather() passes on the first exception of a download, the
\* other download running on; with both contents it returns the QrCodes
QrGather ==
    /\ fn = "qr_codes"
    /\ locals.pc = "gather"
    /\ \/ \E d \in Downloads :
            /\ locals.task[d].pc = "done"
            /\ locals.task[d].out.kind # "ok"
            /\ DataRaise(locals.task[d].out.kind, d)
       \/ /\ \A d \in Downloads :
               locals.task[d].pc = "done" /\ locals.task[d].out.kind = "ok"
          /\ DataReturn([d \in Downloads |-> locals.task[d].out.value])
    /\ UNCHANGED <<fn, params, server, sent, sessionVars>>

QrNext ==
    \/ QrCall
    \/ \E d \in Downloads : DlCall(d) \/ DlLookup(d) \/ DlFile(d)
    \/ QrGather

QrSpec == QrInit /\ [][QrNext]_vars

\* -------------------------------------------------------------- claim C18
\* C18: download_pdf never propagates a failure of the download: it returns
\* empty content instead, so that in qr_codes a failed download does not
\* fail the call.
C18_DownloadNeverRaises ==
    fn = "qr_codes" =>
        /\ \A d \in Downloads : locals.task[d].out.kind \in {None, "ok"}
        /\ ret.kind \in {None, "ok"}

\* ------------------------------------------- the sequential caller, fairly
\* The event loop runs every coroutine that is ready: a step that stays
\* possible is eventually taken.
SeqLiveSpec == SeqInit /\ [][SeqNext]_vars /\ WF_vars(SeqNext)

\* -------------------------------------------------------------- claim C19
\* The guard of task p has found the session forced back to Closed by the
\* expiry check while the client holds the permit.
ExpiredHolding(p) ==
    /\ pc[p] = "w101"
    /\ op[p] \in NormalOps
    /\ lastCheck[ClientOf(p)] = "cleared"
    /\ held[ClientOf(p)] > 0

\* C19: after the expiry check has forced a session that holds the permit
\* back to Closed, the guarded method re-opens the session and reaches its
\* body or fails with an error; it never waits for the gate forever.
C19_ReopensAfterExpiry ==
    \A p \in SeqCallers : ExpiredHolding(p) ~> (pc[p] \in {"body", "done"})

\* C20: in every state of a client the bound accounts are present only if
\* the token is present, and the token is absent exactly when the client
\* reports the session as not opened.
C20_TokenIffOpened ==
    \A c \in Clients :
        /\ accounts[c].some => token[c] # None
        /\ token[c] = None <=> ~opened(c)

\* ------------------------------------------ concurrent callers of a client
\* One client, constructed with credentials, used by several tasks at once.
\* The tasks call the guarded methods; the server holds one account for the
\* login.
ConcCallers == {p \in Procs : ClientOf(p) = "c1"}

ConcOps == {"account_info", "pub_account_info"}

ConcInit ==
    /\ Init
    /\ login = [c \in Clients |-> IF c = "c1" THEN "user" ELSE None]
    /\ password = [c \in Clients |-> IF c = "c1" THEN "pw" ELSE None]

ConcInvoke(p) ==
    /\ Invoke(p)
    /\ op'[p] \in ConcOps

ConcO286(p) ==
    /\ O286(p)
    /\ accounts'[ClientOf(p)] \in {NoAccounts, Some(<<1>>)}

ConcStep(p) ==
    \/ W92(p) \/ W101(p) \/ W104(p)
    \/ O92(p) \/ O264(p) \/ O265(p) \/ O269(p) \/ O270(p) \/ O276(p) \/ ConcO286(p)
    \/ C92(p) \/ C304(p) \/ C307(p) \/ C312(p)
    \/ Body(p) \/ BodyWait(p)
    \/ Return(p)

ConcNext ==
    \/ \E p \in ConcCallers : ConcInvoke(p) \/ ConcStep(p)
    \/ Tick

ConcSpec == ConcInit /\ [][ConcNext]_vars

\* -------------------------------------------------------------- claim C22
\* The task whose step this is.
Moves(p) == pc'[p] # pc[p]

\* Positions inside open() and close(), their check-only wrappers included.
SessionPaths == {"o92", "o264", "o265", "o269", "o270", "o276", "o286",
                 "c92", "c304", "c307", "c312"}

\* Positions from the start of a method body to its end.
InBody == {"body", "b_wait", "add_wait", "rm_wait"}

\* C22: the token is set or cleared only by a task that is inside open() or
\* close() and whose client holds the permit of the admission gate; hence no
\* step taken while a task is in the body of its method changes the token of
\* its client.
C22_TokenWritesSerialized ==
    [][\A p \in Procs :
          LET c == ClientOf(p) IN
          /\ (Moves(p) /\ token'[c] # token[c]) =>
                 (pc[p] \in SessionPaths /\ held[c] > 0)
          /\ pc[p] \in InBody => token'[c] = token[c]]_vars

\* ------------------------------------------ concurrent callers, fairly
\* The server answers the step of task p, and answers well: the login page
\* carries the token, the login is accepted.
Served(p) ==
    /\ resp'[p].kind # "error"
    /\ pc[p] = "o270" => resp'[p].token
    /\ pc[p] = "o286" => accounts'[ClientOf(p)].some

\* The steps of a guarded method that needs the authorized session; no
\* task calls close().
ServedStep(p) ==
    /\ \/ W92(p) \/ W101(p) \/ W104(p)
       \/ O92(p) \/ O264(p) \/ O265(p) \/ O269(p) \/ O270(p) \/ O276(p)
       \/ ConcO286(p)
       \/ Body(p) \/ BodyWait(p)
       \/ Return(p)
    /\ Served(p)

\* The tasks call the guarded method that needs the authorized session.
ServedInvoke(p) ==
    /\ Invoke(p)
    /\ op'[p] = "account_info"

\* The callers of a client whose every request succeeds within the second.
ServedNext == \E p \in ConcCallers : ServedInvoke(p) \/ ServedStep(p)

\* The event loop runs every coroutine that is ready and every request is
\* answered: a step of a task that stays possible is eventually taken.
\* Nothing obliges a caller to start another method.
ConcLiveSpec ==
    ConcInit /\ [][ServedNext]_vars /\ \A p \in ConcCallers : WF_vars(ServedStep(p))

\* -------------------------------------------------------------- claim C23
\* The guard of task p has found the session Closed (no token at the expiry
\* check) while another task of the same client has a method in progress.
StartedTogether(p) ==
    /\ pc[p] = "w101"
    /\ op[p] \in GuardedOps
    /\ ~opened(ClientOf(p))
    /\ lastCheck[ClientOf(p)] = "reset"
    /\ \E q \in InFlight(ClientOf(p)) : q # p /\ op[q] \in GuardedOps

\* C23: each of several guarded methods started concurrently on a client
\* whose session is Closed eventually runs its body or fails with an error;
\* none waits forever on the admission gate.
C23_ConcurrentCallersProceed ==
    \A p \in ConcCallers : StartedTogether(p) ~> (pc[p] \in {"body", "done"})

====
